---- MODULE Spec2Model ----
(***************************************************************************)
(* Model of the field-extraction layer of gitdata (src/gitdata.py):        *)
(* nested_json_value, data_fields, cache_update and github_data, with the  *)
(* process-wide _settings.unknownfieldname accumulator, and of the way the *)
(* commands sort and display the batch (data_sort, data_display).          *)
(*                                                                         *)
(* Representation of Python values.                                        *)
(*  - A Python str used as a field name or dictionary key is the sequence  *)
(*    of its tokens: maximal runs of letters ("owner", "login"), and the   *)
(*    one-character separators "." and "_".  'owner.login' is              *)
(*    <<"owner", ".", "login">>.  str.replace('.', '_'), str.split('.'),   *)
(*    str.lower() and str.endswith('url') are computed on that sequence;   *)
(*    since 'url' holds no separator, endswith('url') depends on the last  *)
(*    token only.                                                          *)
(*  - A decoded JSON value is a tagged record: None, bool, number, str,    *)
(*    list, dict.  A dict (and an OrderedDict) is the sequence of its      *)
(*    <<key, value>> pairs in insertion order, keys unique.                *)
(***************************************************************************)
EXTENDS Integers, Sequences, FiniteSets, TLC

VARIABLES
    unknownfieldname,   \* _settings.unknownfieldname
    cache,              \* the files of gh_cache/: <<filename, cached list>> pairs
    op,                 \* the function the program is in ("idle" between calls)
    args,               \* the arguments of that call; for github_data also the
                        \* _settings.datasource and _settings.username its caller set
    result              \* what the call has produced so far

vars == <<unknownfieldname, cache, op, args, result>>

----------------------------------------------------------------------------
(* Decoded JSON / Python values *)

None == [t |-> "None"]
JBool(b) == [t |-> "bool", b |-> b]
JNum(n) == [t |-> "int", n |-> n]
JStr(s) == [t |-> "str", s |-> s]
JList(xs) == [t |-> "list", xs |-> xs]
JDict(kv) == [t |-> "dict", kv |-> kv]

IsDict(v) == v.t = "dict"

(* bool(v): Python truthiness of a decoded JSON value *)
Truthy(v) ==
    CASE v.t = "None" -> FALSE
      [] v.t = "bool" -> v.b
      [] v.t = "int"  -> v.n # 0
      [] v.t = "str"  -> v.s # ""
      [] v.t = "list" -> v.xs # <<>>
      [] v.t = "dict" -> v.kv # <<>>

----------------------------------------------------------------------------
(* Ordered dictionaries: dict / collections.OrderedDict *)

OdKeys(od) == [i \in 1..Len(od) |-> od[i][1]]

OdHas(od, k) == \E i \in 1..Len(od) : od[i][1] = k

OdGet(od, k) == od[CHOOSE i \in 1..Len(od) : od[i][1] = k][2]

(* mutant of OdSet: the entry is always appended, as in a list of pairs *)
OdSetAppend(od, k, v) == Append(od, <<k, v>>)

(* mutant of OdSet: an existing key keeps its value, as with setdefault *)
OdSetKeepsFirst(od, k, v) ==
    IF OdHas(od, k) THEN od ELSE Append(od, <<k, v>>)

(* od[k] = v: an existing key keeps its position and takes the new value,  *)
(* a new key is appended                                                   *)
OdSet(od, k, v) ==
    IF OdHas(od, k)
    THEN [i \in 1..Len(od) |-> IF od[i][1] = k THEN <<k, v>> ELSE od[i]]
    ELSE Append(od, <<k, v>>)

(* od.update(other) *)
RECURSIVE OdUpdate(_, _)
OdUpdate(od, other) ==
    IF other = <<>> THEN od
    ELSE OdUpdate(OdSet(od, other[1][1], other[1][2]), Tail(other))

----------------------------------------------------------------------------
(* str operations on field names *)

(* one token of str.lower() *)
TokLower(tok) ==
    CASE tok = "Private" -> "private"
      [] tok = "PRIVATE" -> "private"
      [] tok = "Name"    -> "name"
      [] tok = "URL"     -> "url"
      [] tok = "F"       -> "f"
      [] tok = "Gadgets" -> "gadgets"
      [] tok = "None"    -> "none"
      [] tok = "True"    -> "true"
      [] tok = "False"   -> "false"
      [] OTHER           -> tok

StrLower(name) == [i \in 1..Len(name) |-> TokLower(name[i])]

(* name.replace('.', '_') *)
ReplaceDots(name) == [i \in 1..Len(name) |-> IF name[i] = "." THEN "_" ELSE name[i]]

(* the letter runs of the model that end with the characters 'url' *)
UrlSuffixTokens == {"url", "curl"}

(* name.endswith('url') *)
EndsWithUrl(name) == name # <<>> /\ name[Len(name)] \in UrlSuffixTokens

(* name.count('.') *)
RECURSIVE CountDots(_)
CountDots(name) ==
    IF name = <<>> THEN 0
    ELSE (IF name[1] = "." THEN 1 ELSE 0) + CountDots(Tail(name))

(* name.split('.'): the segments between the dots, each a name *)
RECURSIVE SplitFrom(_, _, _)
SplitFrom(name, cur, acc) ==
    IF name = <<>> THEN Append(acc, cur)
    ELSE IF name[1] = "." THEN SplitFrom(Tail(name), <<>>, Append(acc, cur))
    ELSE SplitFrom(Tail(name), Append(cur, name[1]), acc)

SplitDots(name) == SplitFrom(name, <<>>, <<>>)

----------------------------------------------------------------------------
(* nested_json_value *)

MaxDepth == 5

(* mutant of Subscript: a key that differs from k in letter case only is   *)
(* found too                                                               *)
SubscriptFoldCase(v, k) ==
    IF IsDict(v)
    THEN IF \E i \in 1..Len(v.kv) : StrLower(v.kv[i][1]) = StrLower(k)
         THEN [err |-> "none",
               v |-> v.kv[CHOOSE i \in 1..Len(v.kv) :
                              StrLower(v.kv[i][1]) = StrLower(k)][2]]
         ELSE [err |-> "KeyError", v |-> None]
    ELSE [err |-> "TypeError", v |-> None]

(* v[k] for a str k: KeyError when the dict lacks k, TypeError when v is   *)
(* None, a bool, a number, a str or a list                                 *)
Subscript(v, k) ==
    IF IsDict(v)
    THEN IF OdHas(v.kv, k)
         THEN [err |-> "none", v |-> OdGet(v.kv, k)]
         ELSE [err |-> "KeyError", v |-> None]
    ELSE [err |-> "TypeError", v |-> None]

(* v[keys[1]][keys[2]]...: evaluation stops at the first exception *)
RECURSIVE ChainGet(_, _)
ChainGet(v, keys) ==
    IF keys = <<>> THEN [err |-> "none", v |-> v]
    ELSE LET s == Subscript(v, keys[1])
         IN  IF s.err # "none" THEN s ELSE ChainGet(s.v, Tail(keys))

(* mutant of UsedKeys: every segment of the path is applied *)
UsedKeysAll(dot_fldname) == SplitDots(dot_fldname)

(* mutant of UsedKeys: the else branch stops at keys[3] *)
UsedKeysFourOnly(dot_fldname) ==
    LET depth == CountDots(dot_fldname) + 1
        keys  == SplitDots(dot_fldname)
    IN  IF depth < MaxDepth THEN SubSeq(keys, 1, depth) ELSE SubSeq(keys, 1, MaxDepth - 1)

(* the subscripts the depth branch applies: all of them up to depth 4,     *)
(* keys[0..4] in the else branch                                           *)
UsedKeys(dot_fldname) ==
    LET depth == CountDots(dot_fldname) + 1
        keys  == SplitDots(dot_fldname)
    IN  IF depth < MaxDepth THEN SubSeq(keys, 1, depth) ELSE SubSeq(keys, 1, MaxDepth)

(* mutant of NestedJsonValue: the failing lookup records the first segment *)
(* instead of the whole path                                               *)
NestedJsonValueFirstSegment(unknown, nested_dict, dot_fldname) ==
    LET r == ChainGet(nested_dict, UsedKeys(dot_fldname))
    IN  IF r.err = "none"
        THEN [retval |-> r.v, unknownfieldname |-> unknown]
        ELSE [retval |-> None,
              unknownfieldname |-> unknown \cup {SplitDots(dot_fldname)[1]}]

(* mutant of NestedJsonValue: a path already in the unknown-field set is   *)
(* not looked up again                                                     *)
NestedJsonValueMemo(unknown, nested_dict, dot_fldname) ==
    LET r == ChainGet(nested_dict, UsedKeys(dot_fldname))
    IN  IF dot_fldname \in unknown \/ r.err # "none"
        THEN [retval |-> None, unknownfieldname |-> unknown \cup {dot_fldname}]
        ELSE [retval |-> r.v, unknownfieldname |-> unknown]

(* mutant of NestedJsonValue: a lookup that succeeds takes the path out of *)
(* the unknown-field set                                                   *)
NestedJsonValueForgets(unknown, nested_dict, dot_fldname) ==
    LET r == ChainGet(nested_dict, UsedKeys(dot_fldname))
    IN  IF r.err = "none"
        THEN [retval |-> r.v, unknownfieldname |-> unknown \ {dot_fldname}]
        ELSE [retval |-> None, unknownfieldname |-> unknown \cup {dot_fldname}]

(* nested_json_value(nested_dict, dot_fldname), with the unknown-field set *)
(* before the call: the value returned and the set after the call          *)
NestedJsonValue(unknown, nested_dict, dot_fldname) ==
    LET r == ChainGet(nested_dict, UsedKeys(dot_fldname))
    IN  IF r.err = "none"
        THEN [retval |-> r.v, unknownfieldname |-> unknown]
        ELSE [retval |-> None, unknownfieldname |-> unknown \cup {dot_fldname}]

----------------------------------------------------------------------------
(* default_fields *)

(* mutant of DefaultFields: the entity is ignored *)
DefaultFieldsNameOnly(entity) == << <<"name">> >>

DefaultFields(entity) ==
    CASE entity = "member" -> << <<"login">>, <<"id">>, <<"type">> >>
      [] entity = "repo"   -> << <<"name">>, <<"owner", ".", "login">> >>
      [] entity = "team"   -> << <<"name">>, <<"id">>, <<"privacy">>, <<"permission">> >>
      [] entity = "org"    -> << <<"login">>, <<"user">> >>
      [] entity = "collab" -> << <<"login">>, <<"owner">>, <<"repo">>, <<"id">> >>
      [] entity = "commit" -> << <<"commit", ".", "committer", ".", "date">>,
                                 <<"committer", ".", "login">>,
                                 <<"commit", ".", "message">> >>
      [] OTHER             -> << <<"name">> >>

----------------------------------------------------------------------------
(* data_fields *)

Star == <<"*">>
Urls == <<"urls">>
NoUrls == <<"nourls">>
WildcardTokens == {Star, Urls, NoUrls}

(* the state of one data_fields call: the exception raised so far ("none"  *)
(* while it runs normally), the OrderedDict values, the unknown-field set  *)
DfState(raised, values, unknown) ==
    [raised |-> raised, values |-> values, unknownfieldname |-> unknown]

(* mutant of StripUrls: the url keys of the mappings one level further     *)
(* down are removed too                                                    *)
StripUrlsTwoLevels(this_item) ==
    LET kept == SelectSeq(this_item.kv, LAMBDA kv : ~EndsWithUrl(kv[1]))
    IN  JDict([i \in 1..Len(kept) |->
                 IF IsDict(kept[i][2])
                 THEN <<kept[i][1],
                        JDict(SelectSeq(kept[i][2].kv, LAMBDA kv : ~EndsWithUrl(kv[1])))>>
                 ELSE kept[i]])

(* {key: value for (key, value) in this_item.items() if not key.endswith('url')} *)
StripUrls(this_item) ==
    JDict(SelectSeq(this_item.kv, LAMBDA kv : ~EndsWithUrl(kv[1])))

(* the condition selecting a top-level key in a wildcard mode *)
WildcardSelects(mode, fldname) ==
    \/ mode = Star
    \/ mode = Urls /\ EndsWithUrl(fldname)
    \/ mode = NoUrls /\ ~EndsWithUrl(fldname)

(* mutant of WildcardField: a name the record already holds keeps its      *)
(* value                                                                   *)
WildcardFieldKeepsConstant(values, jsondata, mode, fldname) ==
    IF WildcardSelects(mode, fldname) /\ ~OdHas(values, fldname)
    THEN LET this_item == OdGet(jsondata.kv, fldname)
         IN  IF IsDict(this_item) /\ mode = NoUrls
             THEN OdSet(values, fldname, StripUrls(this_item))
             ELSE OdSet(values, fldname, this_item)
    ELSE values

(* the body of "for fldname in jsondata" for one key *)
WildcardField(values, jsondata, mode, fldname) ==
    IF WildcardSelects(mode, fldname)
    THEN LET this_item == OdGet(jsondata.kv, fldname)
         IN  IF IsDict(this_item) /\ mode = NoUrls
             THEN OdSet(values, fldname, StripUrls(this_item))
             ELSE OdSet(values, fldname, this_item)
    ELSE values

RECURSIVE WildcardLoop(_, _, _, _)
WildcardLoop(values, jsondata, mode, keys) ==
    IF keys = <<>> THEN values
    ELSE WildcardLoop(WildcardField(values, jsondata, mode, keys[1]),
                      jsondata, mode, Tail(keys))

(* mutant of WildcardFields: the constants are left out in '*' mode *)
WildcardFieldsStarNoConstants(unknown, jsondata, mode, constants) ==
    LET values0 == IF constants # <<>> /\ mode = NoUrls
                   THEN OdUpdate(<<>>, constants) ELSE <<>>
    IN  IF IsDict(jsondata)
        THEN DfState("none",
                     WildcardLoop(values0, jsondata, mode, OdKeys(jsondata.kv)),
                     unknown)
        ELSE DfState("TypeError", values0, unknown)

(* mutant of WildcardFields: the constants are injected in every mode *)
WildcardFieldsAlwaysConstants(unknown, jsondata, mode, constants) ==
    LET values0 == IF constants # <<>> THEN OdUpdate(<<>>, constants) ELSE <<>>
    IN  IF IsDict(jsondata)
        THEN DfState("none",
                     WildcardLoop(values0, jsondata, mode, OdKeys(jsondata.kv)),
                     unknown)
        ELSE DfState("TypeError", values0, unknown)

(* the wildcard branch; iterating None, a bool or a number raises TypeError *)
WildcardFields(unknown, jsondata, mode, constants) ==
    LET values0 == IF constants # <<>> /\ mode \in {Star, NoUrls}
                   THEN OdUpdate(<<>>, constants) ELSE <<>>
    IN  IF IsDict(jsondata)
        THEN DfState("none",
                     WildcardLoop(values0, jsondata, mode, OdKeys(jsondata.kv)),
                     unknown)
        ELSE DfState("TypeError", values0, unknown)

(* the 'private' post-process: values[fldname] = 'private' if               *)
(* jsondata[fldname] else 'public'; the subscript is outside any try       *)
PrivateField(st, jsondata, fldname) ==
    LET s == Subscript(jsondata, fldname)
    IN  IF s.err # "none"
        THEN DfState(s.err, st.values, st.unknownfieldname)
        ELSE DfState("none",
                     OdSet(st.values, fldname,
                           IF Truthy(s.v) THEN JStr("private") ELSE JStr("public")),
                     st.unknownfieldname)

(* mutant of ExplicitField: the resolved value is stored under the path    *)
(* itself, dots kept                                                       *)
ExplicitFieldKeepsDots(st, jsondata, fldname, constants) ==
    IF constants # <<>> /\ OdHas(constants, fldname)
    THEN DfState("none", OdSet(st.values, fldname, OdGet(constants, fldname)),
                 st.unknownfieldname)
    ELSE LET r  == NestedJsonValue(st.unknownfieldname, jsondata, fldname)
             s1 == DfState("none", OdSet(st.values, fldname, r.retval),
                           r.unknownfieldname)
         IN  IF StrLower(fldname) = <<"private">>
             THEN PrivateField(s1, jsondata, fldname)
             ELSE s1

(* mutant of ExplicitField: a constant is used only when the payload has   *)
(* no top-level key of that name                                           *)
ExplicitFieldPayloadFirst(st, jsondata, fldname, constants) ==
    IF /\ constants # <<>> /\ OdHas(constants, fldname)
       /\ ~(IsDict(jsondata) /\ OdHas(jsondata.kv, fldname))
    THEN DfState("none", OdSet(st.values, fldname, OdGet(constants, fldname)),
                 st.unknownfieldname)
    ELSE LET r  == NestedJsonValue(st.unknownfieldname, jsondata, fldname)
             s1 == DfState("none", OdSet(st.values, ReplaceDots(fldname), r.retval),
                           r.unknownfieldname)
         IN  IF StrLower(fldname) = <<"private">>
             THEN PrivateField(s1, jsondata, fldname)
             ELSE s1

(* mutant of ExplicitField: the name is compared with 'private' without    *)
(* lower()                                                                 *)
ExplicitFieldCaseSensitive(st, jsondata, fldname, constants) ==
    IF constants # <<>> /\ OdHas(constants, fldname)
    THEN DfState("none", OdSet(st.values, fldname, OdGet(constants, fldname)),
                 st.unknownfieldname)
    ELSE LET r  == NestedJsonValue(st.unknownfieldname, jsondata, fldname)
             s1 == DfState("none", OdSet(st.values, ReplaceDots(fldname), r.retval),
                           r.unknownfieldname)
         IN  IF fldname = <<"private">>
             THEN PrivateField(s1, jsondata, fldname)
             ELSE s1

(* the body of "for fldname in fields" for one field *)
ExplicitField(st, jsondata, fldname, constants) ==
    IF constants # <<>> /\ OdHas(constants, fldname)
    THEN DfState("none", OdSet(st.values, fldname, OdGet(constants, fldname)),
                 st.unknownfieldname)
    ELSE LET r  == NestedJsonValue(st.unknownfieldname, jsondata, fldname)
             s1 == DfState("none", OdSet(st.values, ReplaceDots(fldname), r.retval),
                           r.unknownfieldname)
         IN  IF StrLower(fldname) = <<"private">>
             THEN PrivateField(s1, jsondata, fldname)
             ELSE s1

RECURSIVE ExplicitLoop(_, _, _, _)
ExplicitLoop(st, jsondata, fields, constants) ==
    IF fields = <<>> \/ st.raised # "none" THEN st
    ELSE ExplicitLoop(ExplicitField(st, jsondata, fields[1], constants),
                      jsondata, Tail(fields), constants)

(* mutant of DataFields: a wildcard token at any position of fields        *)
(* selects the wildcard mode                                               *)
DataFieldsAnyPosition(unknown, entity, jsondata, fields, constants) ==
    LET flds == IF fields = <<>> THEN DefaultFields(entity) ELSE fields
    IN  IF \E n \in 1..Len(flds) : flds[n] \in WildcardTokens
        THEN WildcardFields(unknown, jsondata,
                            flds[CHOOSE n \in 1..Len(flds) : flds[n] \in WildcardTokens],
                            constants)
        ELSE ExplicitLoop(DfState("none", <<>>, unknown), jsondata, flds, constants)

(* data_fields(entity, jsondata, fields, constants), with the unknown-field *)
(* set before the call.  fields None and [] are both <<>>, constants None   *)
(* and {} are both <<>>: the code tests them with "not fields" and          *)
(* "constants and ..." only.                                                *)
DataFields(unknown, entity, jsondata, fields, constants) ==
    LET flds == IF fields = <<>> THEN DefaultFields(entity) ELSE fields
    IN  IF flds[1] \in WildcardTokens
        THEN WildcardFields(unknown, jsondata, flds[1], constants)
        ELSE ExplicitLoop(DfState("none", <<>>, unknown), jsondata, flds, constants)

(* mutant of DataFieldsInputs: in 'nourls' mode the url keys are deleted   *)
(* from the payload's own nested mappings                                  *)
DataFieldsInputsStripped(entity, jsondata, fields, constants) ==
    LET flds == IF fields = <<>> THEN DefaultFields(entity) ELSE fields
    IN  [jsondata |->
             IF flds[1] = NoUrls /\ IsDict(jsondata)
             THEN JDict([i \in 1..Len(jsondata.kv) |->
                            IF IsDict(jsondata.kv[i][2])
                            THEN <<jsondata.kv[i][1], StripUrls(jsondata.kv[i][2])>>
                            ELSE jsondata.kv[i]])
             ELSE jsondata,
         constants |-> constants]

(* the objects passed as jsondata and constants as the caller holds them   *)
(* when data_fields is over.  The function and nested_json_value only read *)
(* them: fields is rebound to the defaults, not changed; constants is      *)
(* copied into values by update(); a url-stripped mapping is built by a    *)
(* comprehension; every assignment goes to values.                         *)
DataFieldsInputs(entity, jsondata, fields, constants) ==
    [jsondata |-> jsondata, constants |-> constants]

----------------------------------------------------------------------------
(* cache_filename, cache_update, github_data_from_cache *)

(* An endpoint is the sequence of its tokens too, with "/" and "?" as      *)
(* separators: '/orgs/X/members?per_page=100' is                           *)
(* <<"/", "orgs", "/", "X", "/", "members", "?", "per_page=100">>.         *)

(* endpoint.replace('/', '-') *)
ReplaceSlashes(endpoint) ==
    [i \in 1..Len(endpoint) |-> IF endpoint[i] = "/" THEN "-" ELSE endpoint[i]]

(* text.strip('-') *)
RECURSIVE StripDashes(_)
StripDashes(text) ==
    IF text = <<>> THEN text
    ELSE IF text[1] = "-" THEN StripDashes(Tail(text))
    ELSE IF text[Len(text)] = "-" THEN StripDashes(SubSeq(text, 1, Len(text) - 1))
    ELSE text

(* mutant of CutAtQuestionMark: the parameters stay in the file name *)
CutAtQuestionMarkKeepsQuery(filename) == filename

(* filename[:filename.find('?')] when '?' is in filename *)
RECURSIVE CutAtQuestionMark(_)
CutAtQuestionMark(filename) ==
    IF filename = <<>> \/ filename[1] = "?" THEN <<>>
    ELSE <<filename[1]>> \o CutAtQuestionMark(Tail(filename))

(* cache_filename(endpoint) under _settings.username; the source folder,   *)
(* the same for every file, is left out                                    *)
CacheFilename(endpoint, username) ==
    LET auth == IF username # "" THEN username ELSE "_anon"
    IN  <<"gh_cache/">>
            \o CutAtQuestionMark(<<auth, "_">> \o StripDashes(ReplaceSlashes(endpoint)))
            \o <<".json">>

(* cache_exists(endpoint) *)
CacheExists(files, endpoint, username) == OdHas(files, CacheFilename(endpoint, username))

(* data_item[fldname] = value: only a dict supports item assignment *)
SetItem(data_item, fldname, value) ==
    IF IsDict(data_item)
    THEN [err |-> "none", v |-> JDict(OdSet(data_item.kv, fldname, value))]
    ELSE [err |-> "TypeError", v |-> data_item]

(* mutant of AddConstants: a key the item already has keeps the item's     *)
(* value, as with dict.setdefault                                          *)
RECURSIVE AddConstantsSetDefault(_, _)
AddConstantsSetDefault(data_item, constants) ==
    IF constants = <<>> THEN [err |-> "none", v |-> data_item]
    ELSE IF ~IsDict(data_item) THEN [err |-> "TypeError", v |-> data_item]
    ELSE IF OdHas(data_item.kv, constants[1][1])
         THEN AddConstantsSetDefault(data_item, Tail(constants))
         ELSE AddConstantsSetDefault(
                  JDict(Append(data_item.kv, constants[1])), Tail(constants))

(* for fldname in constants: data_item[fldname] = constants[fldname] *)
RECURSIVE AddConstants(_, _)
AddConstants(data_item, constants) ==
    IF constants = <<>> THEN [err |-> "none", v |-> data_item]
    ELSE LET s == SetItem(data_item, constants[1][1], constants[1][2])
         IN  IF s.err # "none" THEN s ELSE AddConstants(s.v, Tail(constants))

(* the loop of cache_update over the payload: the items are changed in     *)
(* place, so the payload list itself holds the changed items               *)
RECURSIVE AddConstantsToAll(_, _)
AddConstantsToAll(payload, constants) ==
    IF payload = <<>> THEN [err |-> "none", payload |-> <<>>]
    ELSE LET s == AddConstants(payload[1], constants)
         IN  IF s.err # "none" THEN [err |-> s.err, payload |-> payload]
             ELSE LET rest == AddConstantsToAll(Tail(payload), constants)
                  IN  [err |-> rest.err, payload |-> <<s.v>> \o rest.payload]

(* json.dumps of a decoded value, as written by dicts2json: the JSON text, *)
(* kept as the tree of its tokens (null, true, false, number, string,      *)
(* array, object with its members in the order of the dict)                *)
RECURSIVE JsonDumps(_)
JsonDumps(v) ==
    CASE v.t = "None" -> [j |-> "null"]
      [] v.t = "bool" -> [j |-> IF v.b THEN "true" ELSE "false"]
      [] v.t = "int"  -> [j |-> "number", n |-> v.n]
      [] v.t = "str"  -> [j |-> "string", s |-> v.s]
      [] v.t = "list" -> [j |-> "array",
                          xs |-> [i \in 1..Len(v.xs) |-> JsonDumps(v.xs[i])]]
      [] v.t = "dict" -> [j |-> "object",
                          members |-> [i \in 1..Len(v.kv) |->
                                          <<v.kv[i][1], JsonDumps(v.kv[i][2])>>]]

(* json.loads of a JSON text, as read by read_json *)
RECURSIVE JsonLoads(_)
JsonLoads(text) ==
    CASE text.j = "null"   -> None
      [] text.j = "true"   -> JBool(TRUE)
      [] text.j = "false"  -> JBool(FALSE)
      [] text.j = "number" -> JNum(text.n)
      [] text.j = "string" -> JStr(text.s)
      [] text.j = "array"  -> JList([i \in 1..Len(text.xs) |-> JsonLoads(text.xs[i])])
      [] text.j = "object" ->
             JDict([i \in 1..Len(text.members) |->
                       <<text.members[i][1], JsonLoads(text.members[i][2])>>])

(* dicts2json(source, filename) followed by read_json(filename): the list  *)
(* a later read of the file written from source gives                      *)
JsonRoundTrip(source) ==
    [i \in 1..Len(source) |-> JsonLoads(JsonDumps(source[i]))]

(* mutant of CacheUpdate: a cache file that exists is left as it is *)
CacheUpdateKeepsExisting(files, endpoint, payload, constants, username) ==
    LET added == IF constants # <<>> THEN AddConstantsToAll(payload, constants)
                 ELSE [err |-> "none", payload |-> payload]
    IN  IF added.err # "none"
        THEN [raised |-> added.err, payload |-> added.payload, cache |-> files]
        ELSE [raised |-> "none", payload |-> added.payload,
              cache |-> IF OdHas(files, CacheFilename(endpoint, username))
                        THEN files
                        ELSE OdSet(files, CacheFilename(endpoint, username),
                                   JsonRoundTrip(added.payload))]

(* mutant of CacheUpdate: the constants are added to copies of the items,  *)
(* so the caller's payload is as it was fetched                            *)
CacheUpdateCopies(files, endpoint, payload, constants, username) ==
    LET added == IF constants # <<>> THEN AddConstantsToAll(payload, constants)
                 ELSE [err |-> "none", payload |-> payload]
    IN  IF added.err # "none"
        THEN [raised |-> added.err, payload |-> payload, cache |-> files]
        ELSE [raised |-> "none", payload |-> payload,
              cache |-> OdSet(files, CacheFilename(endpoint, username),
                              JsonRoundTrip(added.payload))]

(* cache_update(endpoint, payload, constants): the exception raised, the   *)
(* payload as the caller sees it afterwards, and the cache files           *)
CacheUpdate(files, endpoint, payload, constants, username) ==
    LET added == IF constants # <<>> THEN AddConstantsToAll(payload, constants)
                 ELSE [err |-> "none", payload |-> payload]
    IN  IF added.err # "none"
        THEN [raised |-> added.err, payload |-> added.payload, cache |-> files]
        ELSE [raised |-> "none", payload |-> added.payload,
              cache |-> OdSet(files, CacheFilename(endpoint, username),
                              JsonRoundTrip(added.payload))]

(* mutant of GithubDataFromCache: the cached list is read back last item   *)
(* first                                                                   *)
GithubDataFromCacheReversed(files, endpoint, username) ==
    LET cached == OdGet(files, CacheFilename(endpoint, username))
    IN  [i \in 1..Len(cached) |-> cached[Len(cached) + 1 - i]]

(* github_data_from_cache(endpoint) *)
GithubDataFromCache(files, endpoint, username) ==
    OdGet(files, CacheFilename(endpoint, username))

----------------------------------------------------------------------------
(* github_data *)

(* github_allpages: the items of all pages, in arrival order *)
RECURSIVE Flatten(_)
Flatten(pages) == IF pages = <<>> THEN <<>> ELSE pages[1] \o Flatten(Tail(pages))

(* the extraction loop: retval.append(data_fields(...)) for each item; an  *)
(* exception of data_fields leaves the loop                                *)
RECURSIVE ProjectAll(_, _, _, _, _)
ProjectAll(st, entity, all_fields, fields, constants) ==
    IF all_fields = <<>> THEN st
    ELSE LET r == DataFields(st.unknownfieldname, entity, all_fields[1], fields, constants)
         IN  IF r.raised # "none"
             THEN [raised |-> r.raised, retval |-> st.retval,
                   unknownfieldname |-> r.unknownfieldname]
             ELSE ProjectAll([raised |-> "none", retval |-> Append(st.retval, r.values),
                              unknownfieldname |-> r.unknownfieldname],
                             entity, Tail(all_fields), fields, constants)

----------------------------------------------------------------------------
(* data_sort, sorted(templist, key=data_sort), data_display *)

(* str(value) of a scalar; of a list or a mapping only the opening bracket  *)
(* is kept, which is what orders it against the scalars                    *)
PyStr(v) ==
    CASE v.t = "None" -> "None"
      [] v.t = "bool" -> IF v.b THEN "True" ELSE "False"
      [] v.t = "int"  -> ToString(v.n)
      [] v.t = "str"  -> v.s
      [] v.t = "list" -> "["
      [] v.t = "dict" -> "{"

(* the lower-cased strings of the model in the order of Python's str       *)
(* comparison: digits, '[', lower-case letters, '{'                        *)
StrOrder ==
    << "3", "6", "7", "[", "acme", "contoso", "false", "flat", "fromjson",
       "gadgets", "k1", "k2", "k3", "msft", "none", "private", "public", "sdk",
       "text", "true", "u1", "u2", "u3", "u4", "u5", "u6", "u7", "widgets",
       "zed", "{" >>

StrRank(text) == CHOOSE i \in 1..Len(StrOrder) : StrOrder[i] = text

(* a <= b for two str *)
StrLeq(a, b) == StrRank(a) <= StrRank(b)

(* data_sort(datadict): list(datadict.keys())[0] raises IndexError on an   *)
(* empty record                                                            *)
DataSort(datadict) ==
    IF datadict = <<>>
    THEN [err |-> "IndexError", key |-> ""]
    ELSE [err |-> "none", key |-> TokLower(PyStr(datadict[1][2]))]

(* one step of a stable sort: x goes after the elements whose key is not   *)
(* greater than its own                                                    *)
RECURSIVE InsertByKey(_, _)
InsertByKey(sorted_data, x) ==
    IF sorted_data = <<>> THEN <<x>>
    ELSE LET last == sorted_data[Len(sorted_data)]
         IN  IF StrLeq(DataSort(last).key, DataSort(x).key)
             THEN Append(sorted_data, x)
             ELSE Append(InsertByKey(SubSeq(sorted_data, 1, Len(sorted_data) - 1), x),
                         last)

RECURSIVE SortedByKey(_)
SortedByKey(templist) ==
    IF templist = <<>> THEN <<>>
    ELSE InsertByKey(SortedByKey(SubSeq(templist, 1, Len(templist) - 1)),
                     templist[Len(templist)])

(* sorted(templist, key=data_sort): the keys of all records are computed   *)
(* first, so one empty record raises before anything is ordered            *)
Sorted(templist) ==
    IF \E i \in 1..Len(templist) : DataSort(templist[i]).err # "none"
    THEN [raised |-> "IndexError", sorted_data |-> <<>>]
    ELSE [raised |-> "none", sorted_data |-> SortedByKey(templist)]

(* data_display(datasource): nothing when _settings.display_data is off,   *)
(* else one line of values per record and, when the unknown-field set is   *)
(* not empty, the line listing it; the set is read, never written          *)
DataDisplay(display_data, datasource, unknown) ==
    IF ~display_data THEN [rows |-> <<>>, unknown |-> {}]
    ELSE [rows |-> [i \in 1..Len(datasource) |->
                       [j \in 1..Len(datasource[i]) |-> PyStr(datasource[i][j][2])]],
          unknown |-> unknown]

----------------------------------------------------------------------------
(* Inputs of the model: decoded API items, field names, constants *)

Name == <<"name">>
Owner == <<"owner">>
Repo == <<"repo">>
Private == <<"private">>
PrivateCap == <<"Private">>
Url == <<"url">>
HtmlUrl == <<"html", "_", "url">>
OwnerLogin == <<"owner", ".", "login">>
OwnerLoginFlat == <<"owner", "_", "login">>
NoSuch == <<"nosuch">>

(* a repository item: nested owner, url keys at two levels, a list of mappings *)
RepoItem ==
    JDict(<< <<Name, JStr("widgets")>>,
             <<Owner, JDict(<< <<<<"login">>, JStr("acme")>>,
                               <<Url, JStr("u2")>>,
                               <<<<"org">>, JDict(<< <<<<"id">>, JNum(7)>>,
                                                     <<Url, JStr("u3")>> >>)>> >>)>>,
             <<Private, JBool(TRUE)>>,
             <<HtmlUrl, JStr("u1")>>,
             <<<<"topics">>, JList(<< JDict(<< <<Url, JStr("u4")>> >>) >>)>> >>)

(* a repository item where the API returned null for the owner object *)
NullOwnerItem ==
    JDict(<< <<Url, JStr("u5")>>,
             <<Name, JStr("Gadgets")>>,
             <<Owner, None>>,
             <<Private, JBool(FALSE)>> >>)

(* an item with keys that differ from the usual ones in case or separator *)
OddItem ==
    JDict(<< <<PrivateCap, JBool(TRUE)>>,
             <<OwnerLoginFlat, JStr("flat")>>,
             <<Owner, JDict(<< <<<<"login">>, JStr("zed")>> >>)>>,
             <<Repo, JStr("fromjson")>>,
             <<<<"URL">>, JStr("u6")>>,
             <<<<"curl">>, JStr("u7")>> >>)

(* a mapping nested six levels deep *)
DeepItem ==
    JDict(<< <<<<"a">>, JDict(<< <<<<"b">>, JDict(<< <<<<"c">>, JDict(<<
             <<<<"d">>, JDict(<< <<<<"e">>, JDict(<< <<<<"f">>, JNum(6)>> >>)>> >>)>>
             >>)>> >>)>> >>)>> >>)

EmptyItem == JDict(<<>>)

(* a repository item none of whose keys ends with 'url' *)
PlainItem ==
    JDict(<< <<Name, JStr("Gadgets")>>,
             <<Private, JBool(FALSE)>>,
             <<Owner, None>> >>)

(* the items data_fields is given; None is a malformed item *)
Items == {RepoItem, NullOwnerItem, OddItem, DeepItem, EmptyItem, None}

(* the payloads nested_json_value is called on directly *)
Payloads == Items \cup {JStr("text"), JList(<< RepoItem >>), JNum(3)}

(* the dotted paths nested_json_value is called with directly *)
Paths ==
    { Name, <<"Name">>, OwnerLogin, OwnerLoginFlat, Private, NoSuch,
      <<"owner", ".", "org", ".", "id">>,
      <<"owner", ".", "nosuch", ".", "id">>,
      <<"name", ".", "x">>,
      <<"topics", ".", "url">>,
      <<"a", ".", "b", ".", "c", ".", "d">>,
      <<"a", ".", "b", ".", "c", ".", "d", ".", "e">>,
      <<"a", ".", "b", ".", "c", ".", "d", ".", "e", ".", "f">>,
      <<"a", ".", "b", ".", "c", ".", "d", ".", "e", ".", "x">>,
      <<"a", ".", "b", ".", "c", ".", "x", ".", "e", ".", "f">>,
      <<"a", ".", "b", ".", "c", ".", "d", ".", "e", ".", "F">>,
      <<"a", ".", ".", "b">> }

(* the field names explicit field lists are built from *)
FieldNames == {Name, OwnerLogin, OwnerLoginFlat, Private, PrivateCap, Repo, NoSuch}

MaxFields == 2

RECURSIVE SeqsUpTo(_, _)
SeqsUpTo(S, n) ==
    IF n = 0 THEN {<<>>}
    ELSE LET shorter == SeqsUpTo(S, n - 1)
         IN  shorter \cup {Append(q, x) : q \in shorter, x \in S}

(* fields: None/[] (<<>>), explicit lists of at most MaxFields names, and   *)
(* the wildcard tokens, alone, followed by a name or following a name      *)
FieldLists ==
    SeqsUpTo(FieldNames, MaxFields)
        \cup {<<w>> : w \in WildcardTokens}
        \cup {<<w, Name>> : w \in WildcardTokens}
        \cup {<<Name, w>> : w \in WildcardTokens}

(* constants: None, the constants of the collabs and members commands, and *)
(* constants whose names are also payload keys or requested paths          *)
NoConstants == <<>>
CollabConstants == << <<Owner, JStr("msft")>>, <<Repo, JStr("sdk")>> >>
ClashConstants ==
    << <<OwnerLogin, JStr("k1")>>, <<Private, JStr("k2")>>, <<Url, JStr("k3")>> >>
OrgConstants == << <<<<"org">>, JStr("contoso")>> >>
ConstantsSet == {NoConstants, CollabConstants, OrgConstants, ClashConstants}

Entities == {"repo", "collab", "other"}

(* the endpoints of membersget for one organization, without and with the  *)
(* 2FA filter                                                              *)
MembersEndpoint == <<"/", "orgs", "/", "X", "/", "members", "?", "per_page=100">>
MembersNo2faEndpoint ==
    <<"/", "orgs", "/", "X", "/", "members", "?", "per_page=100&filter=2fa_disabled">>
Endpoints == {MembersEndpoint, MembersNo2faEndpoint}

(* _settings.username as auth_config leaves it: '' is no authentication *)
Usernames == {""}

(* _settings.datasource as the commands set it, and the lower-cased        *)
(* answers to the prompt ("n" is any answer other than a, c and x)         *)
Datasources == {"a", "c", "p"}
Answers == {"a", "c", "x", "n"}

(* the items the API returns *)
ApiItems == {PlainItem, OddItem}

MaxItems == 2

(* the ways of cutting a list of items into non-empty pages *)
RECURSIVE Pagings(_)
Pagings(items) ==
    IF items = <<>> THEN {<<>>}
    ELSE UNION {{<<SubSeq(items, 1, n)>> \o rest :
                    rest \in Pagings(SubSeq(items, n + 1, Len(items)))} :
                n \in 1..Len(items)}

(* what github_allpages can fetch: no page, one empty page, or at most     *)
(* MaxItems items cut into pages                                           *)
PageSets ==
    {<< <<>> >>} \cup UNION {Pagings(items) : items \in SeqsUpTo(ApiItems, MaxItems)}

(* the field lists github_data is called with *)
GithubFieldLists == {<<>>, <<Private, Name>>, <<NoSuch>>, <<Star>>, <<Urls>>}
GithubConstants == {NoConstants, CollabConstants}

----------------------------------------------------------------------------
(* The program between and inside calls *)

NoArgs == [none |-> TRUE]
NoResult == [none |-> TRUE]
MaxUnknown == 2

Init ==
    /\ unknownfieldname = {}
    /\ cache = <<>>
    /\ op = "idle"
    /\ args = NoArgs
    /\ result = NoResult

(* a direct call of nested_json_value(nested_dict, dot_fldname) *)
CallNestedJsonValue ==
    /\ op = "idle"
    /\ Cardinality(unknownfieldname) < MaxUnknown
    /\ \E nested_dict \in Payloads, dot_fldname \in Paths :
          LET r == NestedJsonValue(unknownfieldname, nested_dict, dot_fldname)
          IN  /\ op' = "nested_json_value"
              /\ args' = [nested_dict |-> nested_dict, dot_fldname |-> dot_fldname]
              /\ result' = [pc |-> "done", raised |-> "none", retval |-> r.retval,
                            entry_unknown |-> unknownfieldname]
              /\ unknownfieldname' = r.unknownfieldname
    /\ UNCHANGED cache

(* a direct call of data_fields(entity, jsondata, fields, constants) *)
CallDataFields ==
    /\ op = "idle"
    /\ Cardinality(unknownfieldname) < MaxUnknown
    /\ \E entity \in Entities, jsondata \in Items, fields \in FieldLists,
          constants \in ConstantsSet :
          LET r == DataFields(unknownfieldname, entity, jsondata, fields, constants)
          IN  /\ fields = <<>> \/ entity = "other"
              /\ op' = "data_fields"
              /\ args' = [entity |-> entity, jsondata |-> jsondata,
                          fields |-> fields, constants |-> constants]
              /\ result' = [pc |-> IF r.raised = "none" THEN "done" ELSE "raised",
                            raised |-> r.raised, retval |-> r.values,
                            entry_unknown |-> unknownfieldname,
                            inputs |-> DataFieldsInputs(entity, jsondata, fields,
                                                        constants)]
              /\ unknownfieldname' = r.unknownfieldname
    /\ UNCHANGED cache

(* the call returns to its caller; an uncaught exception or sys.exit ends   *)
(* the process instead                                                     *)
Return ==
    /\ op # "idle"
    /\ result.pc = IF op = "github_data" THEN "output" ELSE "done"
    /\ op' = "idle"
    /\ args' = NoArgs
    /\ result' = NoResult
    /\ UNCHANGED <<unknownfieldname, cache>>

(* a program that calls nested_json_value only *)
NextResolver == CallNestedJsonValue \/ Return

SpecResolver == Init /\ [][NextResolver]_vars

(* a program that calls data_fields only *)
NextFields == CallDataFields \/ Return

SpecFields == Init /\ [][NextFields]_vars

(* A command sets _settings.datasource, _settings.display_data and         *)
(* _settings.username and calls github_data(endpoint, entity, fields,      *)
(* constants).                                                             *)
CallGithubData ==
    /\ op = "idle"
    /\ Cardinality(unknownfieldname) < MaxUnknown
    /\ \E endpoint \in Endpoints, fields \in GithubFieldLists,
          constants \in GithubConstants, source \in Datasources,
          username \in Usernames :
          /\ op' = "github_data"
          /\ args' = [endpoint |-> endpoint, entity |-> "repo", fields |-> fields,
                      constants |-> constants, datasource |-> source,
                      username |-> username]
          /\ result' = [pc |-> "source", raised |-> "none", stage |-> "source",
                        read_from |-> "", prompted |-> FALSE,
                        cache_offered |-> FALSE, echoed |-> "",
                        sys_exit |-> <<>>, fetches |-> 0,
                        fetched |-> <<>>,
                        all_fields |-> <<>>, retval |-> <<>>,
                        sorted_data |-> <<>>,
                        displayed |-> DataDisplay(FALSE, <<>>, {}),
                        entry_unknown |-> unknownfieldname]
    /\ UNCHANGED <<unknownfieldname, cache>>

(* github_data up to the prompt: the early return when cached data is      *)
(* requested and none exists, else the choice of read_from                 *)
GithubDataSource ==
    /\ op = "github_data"
    /\ result.pc = "source"
    /\ IF args.datasource = "c" /\ ~CacheExists(cache, args.endpoint, args.username)
       THEN result' = [result EXCEPT
                          !.pc = "done", !.retval = <<>>,
                          !.echoed = "ERROR: cached data requested, but none found."]
       ELSE IF args.datasource \in {"a", "c"}
       THEN result' = [result EXCEPT !.pc = "read", !.read_from = args.datasource]
       ELSE \E answer \in Answers :
               result' = [result EXCEPT
                             !.pc = "read", !.read_from = answer,
                             !.prompted = TRUE,
                             !.cache_offered = CacheExists(cache, args.endpoint,
                                                           args.username)]
    /\ UNCHANGED <<unknownfieldname, cache, op, args>>

(* mutant of GithubDataRead: every answer other than 'a' and 'x' reads the *)
(* cache when it exists                                                    *)
GithubDataReadCacheByDefault ==
    /\ op = "github_data"
    /\ result.pc = "read"
    /\ IF result.read_from = "x"
       THEN /\ result' = [result EXCEPT !.pc = "exited", !.stage = "exit",
                                        !.sys_exit = <<0>>]
            /\ UNCHANGED cache
       ELSE IF result.read_from = "a"
       THEN \E pages \in PageSets :
               LET cu == CacheUpdate(cache, args.endpoint, Flatten(pages),
                                     args.constants, args.username)
               IN  /\ result' = [result EXCEPT
                                    !.pc = IF cu.raised = "none" THEN "project"
                                           ELSE "raised",
                                    !.raised = cu.raised,
                                    !.stage = "cache_update",
                                    !.fetches = result.fetches + 1,
                                    !.fetched = Flatten(pages),
                                    !.all_fields = cu.payload]
                   /\ cache' = cu.cache
       ELSE IF CacheExists(cache, args.endpoint, args.username)
       THEN /\ result' = [result EXCEPT
                             !.pc = "project", !.stage = "cache_read",
                             !.all_fields = GithubDataFromCache(cache, args.endpoint,
                                                                args.username)]
            /\ UNCHANGED cache
       ELSE /\ result' = [result EXCEPT !.pc = "project", !.stage = "no_data"]
            /\ UNCHANGED cache
    /\ UNCHANGED <<unknownfieldname, op, args>>

(* github_data from the exit test to the cache update or cache read *)
GithubDataRead ==
    /\ op = "github_data"
    /\ result.pc = "read"
    /\ IF result.read_from = "x"
       THEN /\ result' = [result EXCEPT !.pc = "exited", !.stage = "exit",
                                        !.sys_exit = <<0>>]
            /\ UNCHANGED cache
       ELSE IF result.read_from = "a"
       THEN \E pages \in PageSets :
               LET cu == CacheUpdate(cache, args.endpoint, Flatten(pages),
                                     args.constants, args.username)
               IN  /\ result' = [result EXCEPT
                                    !.pc = IF cu.raised = "none" THEN "project"
                                           ELSE "raised",
                                    !.raised = cu.raised,
                                    !.stage = "cache_update",
                                    !.fetches = result.fetches + 1,
                                    !.fetched = Flatten(pages),
                                    !.all_fields = cu.payload]
                   /\ cache' = cu.cache
       ELSE IF /\ result.read_from = "c"
               /\ CacheExists(cache, args.endpoint, args.username)
       THEN /\ result' = [result EXCEPT
                             !.pc = "project", !.stage = "cache_read",
                             !.all_fields = GithubDataFromCache(cache, args.endpoint,
                                                                args.username)]
            /\ UNCHANGED cache
       ELSE /\ result' = [result EXCEPT !.pc = "project", !.stage = "no_data"]
            /\ UNCHANGED cache
    /\ UNCHANGED <<unknownfieldname, op, args>>

(* the extraction loop of github_data and its return *)
GithubDataProject ==
    /\ op = "github_data"
    /\ result.pc = "project"
    /\ LET r == ProjectAll([raised |-> "none", retval |-> <<>>,
                            unknownfieldname |-> unknownfieldname],
                           args.entity, result.all_fields, args.fields, args.constants)
       IN  /\ result' = [result EXCEPT
                            !.pc = IF r.raised = "none" THEN "done" ELSE "raised",
                            !.raised = r.raised,
                            !.stage = "project",
                            !.retval = r.retval]
           /\ unknownfieldname' = r.unknownfieldname
    /\ UNCHANGED <<cache, op, args>>

(* the command handles the returned data: sorted(templist, key=data_sort),  *)
(* data_display(sorted_data) under the _settings.display_data the command   *)
(* took from its --display option; data_write puts the same sorted_data in  *)
(* the output file                                                         *)
CommandOutput ==
    /\ op = "github_data"
    /\ result.pc = "done"
    /\ \E display \in BOOLEAN :
       LET s == Sorted(result.retval)
       IN  result' = [result EXCEPT
                         !.pc = IF s.raised = "none" THEN "output" ELSE "raised",
                         !.raised = s.raised,
                         !.stage = "output",
                         !.sorted_data = s.sorted_data,
                         !.displayed =
                             IF s.raised = "none"
                             THEN DataDisplay(display, s.sorted_data,
                                              unknownfieldname)
                             ELSE result.displayed]
    /\ UNCHANGED <<unknownfieldname, cache, op, args>>

(* a program that gets its data through github_data, as the commands do *)
Next ==
    \/ CallGithubData
    \/ GithubDataSource
    \/ GithubDataRead
    \/ GithubDataProject
    \/ CommandOutput
    \/ Return

Spec == Init /\ [][Next]_vars

----------------------------------------------------------------------------
(* Vocabulary of the properties *)

InNestedJsonValue == op = "nested_json_value"
InDataFields == op = "data_fields"

(* every segment of segs names a key of the mapping reached so far *)
RECURSIVE PathResolves(_, _)
PathResolves(v, segs) ==
    \/ segs = <<>>
    \/ /\ IsDict(v)
       /\ OdHas(v.kv, segs[1])
       /\ PathResolves(OdGet(v.kv, segs[1]), Tail(segs))

(* the value stored at a path that resolves *)
RECURSIVE ValueAt(_, _)
ValueAt(v, segs) ==
    IF segs = <<>> THEN v ELSE ValueAt(OdGet(v.kv, segs[1]), Tail(segs))

Min(a, b) == IF a < b THEN a ELSE b

(* the field list a data_fields call works on *)
EffectiveFields == IF args.fields = <<>> THEN DefaultFields(args.entity) ELSE args.fields

ExplicitMode == InDataFields /\ EffectiveFields[1] \notin WildcardTokens

IsConstant(fldname) == OdHas(args.constants, fldname)

IsPrivateName(fldname) == StrLower(fldname) = Private

(* what nested_json_value returns for a path on the call's item *)
Resolved(fldname) == NestedJsonValue({}, args.jsondata, fldname).retval

(* the state of the explicit loop after its first n fields *)
AfterFields(n) ==
    ExplicitLoop(DfState("none", <<>>, result.entry_unknown), args.jsondata,
                 SubSeq(EffectiveFields, 1, n), args.constants)

----------------------------------------------------------------------------
(* C2: for a path of 1 to 5 segments in which every segment resolves,      *)
(* nested_json_value returns exactly the value stored at the path and      *)
(* leaves the unknown-field set as it was.                                 *)
C2_PresentPathValue ==
    InNestedJsonValue =>
        LET segs == SplitDots(args.dot_fldname)
        IN  (Len(segs) \in 1..5 /\ PathResolves(args.nested_dict, segs)) =>
                /\ result.raised = "none"
                /\ result.retval = ValueAt(args.nested_dict, segs)
                /\ unknownfieldname = result.entry_unknown

(* a five-segment path resolved while the set already held a path *)
C2_Witness ==
    /\ InNestedJsonValue
    /\ args.nested_dict = DeepItem
    /\ args.dot_fldname = <<"a", ".", "b", ".", "c", ".", "d", ".", "e">>
    /\ result.retval = JDict(<< <<<<"f">>, JNum(6)>> >>)
    /\ result.entry_unknown # {}

(* C3 as stated: whenever some hop of the path fails, None is returned and *)
(* the full path is added to the unknown-field set.                        *)
C3_Original ==
    InNestedJsonValue =>
        (~PathResolves(args.nested_dict, SplitDots(args.dot_fldname)) =>
            /\ result.raised = "none"
            /\ result.retval = None
            /\ unknownfieldname = result.entry_unknown \cup {args.dot_fldname})

(* C3: whenever a hop among the first five segments of the path fails (key *)
(* absent, or the value reached is not a mapping), nested_json_value       *)
(* raises nothing, returns None and adds the full path to the              *)
(* unknown-field set.                                                      *)
C3_FailedHopNotFound ==
    InNestedJsonValue =>
        LET segs == SplitDots(args.dot_fldname)
        IN  ~PathResolves(args.nested_dict, SubSeq(segs, 1, Min(Len(segs), 5))) =>
                /\ result.raised = "none"
                /\ result.retval = None
                /\ unknownfieldname = result.entry_unknown \cup {args.dot_fldname}

(* a hop failed on a null where a mapping was expected; the path is new *)
C3_Witness ==
    /\ InNestedJsonValue
    /\ args.nested_dict = NullOwnerItem
    /\ args.dot_fldname = OwnerLogin
    /\ result.retval = None
    /\ OwnerLogin \notin result.entry_unknown
    /\ OwnerLogin \in unknownfieldname

(* the output keys of the fields are pairwise distinct *)
DistinctOutputKeys(flds) ==
    \A i, j \in 1..Len(flds) :
        ReplaceDots(flds[i]) = ReplaceDots(flds[j]) => i = j

(* one entry per path, in request order: key with '.' replaced by '_',     *)
(* value as nested_json_value returns it                                   *)
PathEntries(flds) ==
    [i \in 1..Len(flds) |-> <<ReplaceDots(flds[i]), Resolved(flds[i])>>]

(* C4 as stated, for the calls that return a record: in explicit mode with *)
(* no constant matching the record is one entry per requested path, in     *)
(* request order.                                                          *)
C4_Original ==
    (/\ ExplicitMode
     /\ result.raised = "none"
     /\ \A i \in 1..Len(EffectiveFields) : ~IsConstant(EffectiveFields[i]))
        => result.retval = PathEntries(EffectiveFields)

(* C4: in explicit mode, when no requested path is a constant or equals    *)
(* 'private' case-insensitively and the paths have pairwise distinct       *)
(* output keys, data_fields returns one entry per requested path, in       *)
(* request order: the path with '.' replaced by '_', with the value        *)
(* nested_json_value returns for the full path.                            *)
C4_ExplicitEntries ==
    (/\ ExplicitMode
     /\ \A i \in 1..Len(EffectiveFields) :
            /\ ~IsConstant(EffectiveFields[i])
            /\ ~IsPrivateName(EffectiveFields[i])
     /\ DistinctOutputKeys(EffectiveFields))
        => /\ result.raised = "none"
           /\ result.retval = PathEntries(EffectiveFields)

(* paths ['owner.login', 'name'] on {'owner': {'login': 'acme'}, 'name':   *)
(* 'widgets'} gave (owner_login: 'acme', name: 'widgets')                  *)
C4_Witness ==
    /\ InDataFields
    /\ args.jsondata = RepoItem
    /\ args.fields = <<OwnerLogin, Name>>
    /\ result.retval = << <<OwnerLoginFlat, JStr("acme")>>, <<Name, JStr("widgets")>> >>

(* C5: in explicit mode, processing a requested field that is a key of     *)
(* constants writes the constant's value under that exact name, gives the  *)
(* same result whatever the payload is, and leaves the unknown-field set   *)
(* as it was before that field.                                            *)
C5_ConstantWins ==
    ExplicitMode =>
        \A i \in 1..Len(EffectiveFields) :
            LET fldname == EffectiveFields[i]
                before  == AfterFields(i - 1)
                after   == AfterFields(i)
            IN  (IsConstant(fldname) /\ before.raised = "none") =>
                    /\ after.raised = "none"
                    /\ OdHas(after.values, fldname)
                    /\ OdGet(after.values, fldname) = OdGet(args.constants, fldname)
                    /\ after.unknownfieldname = before.unknownfieldname
                    /\ \A other \in Items :
                          ExplicitField(before, other, fldname, args.constants) = after
                    /\ i = Len(EffectiveFields) =>
                          /\ result.retval = after.values
                          /\ unknownfieldname = after.unknownfieldname

(* the constant 'repo' was emitted although the payload has its own 'repo', *)
(* and the dotted constant 'owner.login' kept its dot                      *)
C5_Witness ==
    /\ InDataFields
    /\ \/ /\ args.jsondata = OddItem
          /\ args.constants = CollabConstants
          /\ args.fields = <<Name, Repo>>
          /\ result.retval = << <<Name, None>>, <<Repo, JStr("sdk")>> >>
          /\ unknownfieldname = result.entry_unknown \cup {Name}
       \/ /\ args.jsondata = EmptyItem
          /\ args.constants = ClashConstants
          /\ args.fields = <<OwnerLogin>>
          /\ result.retval = << <<OwnerLogin, JStr("k1")>> >>
          /\ unknownfieldname = result.entry_unknown

(* the string a boolean 'private' value is re-expressed as *)
PrivacyString(b) == IF b THEN JStr("private") ELSE JStr("public")

(* the payload holds a boolean under exactly this name *)
HasBoolean(jsondata, fldname) ==
    /\ IsDict(jsondata)
    /\ OdHas(jsondata.kv, fldname)
    /\ OdGet(jsondata.kv, fldname).t = "bool"

(* C6 as stated, for the calls that return a record: a requested field     *)
(* named 'private' (any case) whose payload value is a boolean is emitted  *)
(* as 'private' for true and 'public' for false.                           *)
C6_Original ==
    (ExplicitMode /\ result.raised = "none") =>
        \A i \in 1..Len(EffectiveFields) :
            LET fldname == EffectiveFields[i]
            IN  (IsPrivateName(fldname) /\ HasBoolean(args.jsondata, fldname)) =>
                    /\ OdHas(result.retval, fldname)
                    /\ OdGet(result.retval, fldname) =
                          PrivacyString(OdGet(args.jsondata.kv, fldname).b)

(* C6: in explicit mode, a requested field that equals 'private'           *)
(* case-insensitively and is not a key of constants is, in the record      *)
(* returned, the string 'private' when the payload's boolean value for it  *)
(* is true and 'public' when it is false.                                  *)
C6_PrivateReexpressed ==
    (ExplicitMode /\ result.raised = "none") =>
        \A i \in 1..Len(EffectiveFields) :
            LET fldname == EffectiveFields[i]
            IN  (/\ IsPrivateName(fldname)
                 /\ ~IsConstant(fldname)
                 /\ HasBoolean(args.jsondata, fldname)) =>
                    /\ OdHas(result.retval, fldname)
                    /\ OdGet(result.retval, fldname) =
                          PrivacyString(OdGet(args.jsondata.kv, fldname).b)

(* 'Private': true became 'private', or 'private': false became 'public' *)
C6_Witness ==
    /\ InDataFields
    /\ \/ /\ args.jsondata = OddItem
          /\ args.fields = <<PrivateCap>>
          /\ result.retval = << <<PrivateCap, JStr("private")>> >>
       \/ /\ args.jsondata = NullOwnerItem
          /\ args.fields = <<Name, Private>>
          /\ args.constants = NoConstants
          /\ result.retval = << <<Name, JStr("Gadgets")>>, <<Private, JStr("public")>> >>

(* no name of the constants is among the given payload keys *)
NoSharedName(constants, keys) ==
    \A i \in 1..Len(constants), j \in 1..Len(keys) : constants[i][1] # keys[j]

(* C7 as stated: with fields = ['*'] the record is the C constants in      *)
(* their order followed by the N payload entries in payload order.         *)
C7_Original ==
    (InDataFields /\ args.fields = <<Star>> /\ IsDict(args.jsondata)) =>
        /\ result.raised = "none"
        /\ result.retval = args.constants \o args.jsondata.kv
        /\ Len(result.retval) = Len(args.constants) + Len(args.jsondata.kv)

(* C7: with fields = ['*'], a payload of N top-level keys and C constants  *)
(* none of which has the name of a payload key, data_fields returns        *)
(* exactly N + C entries: the constants in their order, then the payload   *)
(* entries in payload order with their payload values.                     *)
C7_StarEntries ==
    (/\ InDataFields
     /\ args.fields = <<Star>>
     /\ IsDict(args.jsondata)
     /\ NoSharedName(args.constants, OdKeys(args.jsondata.kv)))
        => /\ result.raised = "none"
           /\ result.retval = args.constants \o args.jsondata.kv
           /\ Len(result.retval) = Len(args.constants) + Len(args.jsondata.kv)

(* three constants followed by the six entries of the payload *)
C7_Witness ==
    /\ InDataFields
    /\ args.fields = <<Star>>
    /\ args.jsondata = OddItem
    /\ args.constants = ClashConstants
    /\ Len(result.retval) = 3 + 6
    /\ OdKeys(result.retval) =
          <<OwnerLogin, Private, Url,
            PrivateCap, OwnerLoginFlat, Owner, Repo, <<"URL">>, <<"curl">> >>

(* C8: with fields = ['urls'] the record returned holds exactly the       *)
(* payload's top-level entries whose key ends with 'url' (case-sensitive), *)
(* in payload order with their values, and no constant, whatever the       *)
(* constants are.                                                          *)
C8_UrlsOnly ==
    (InDataFields /\ args.fields = <<Urls>> /\ IsDict(args.jsondata)) =>
        /\ result.raised = "none"
        /\ result.retval =
              SelectSeq(args.jsondata.kv,
                        LAMBDA kv : kv[1][Len(kv[1])] \in {"url", "curl"})
        /\ \A i \in 1..Len(result.retval) :
              /\ OdHas(args.jsondata.kv, result.retval[i][1])
              /\ result.retval[i][2] = OdGet(args.jsondata.kv, result.retval[i][1])

(* 'curl' was selected and 'URL' was not, with a constant named 'url'      *)
(* passed; and 'html_url' was selected with its value                      *)
C8_Witness ==
    /\ InDataFields
    /\ args.fields = <<Urls>>
    /\ args.constants = ClashConstants
    /\ \/ args.jsondata = OddItem /\ result.retval = << <<<<"curl">>, JStr("u7")>> >>
       \/ args.jsondata = RepoItem /\ result.retval = << <<HtmlUrl, JStr("u1")>> >>

(* a value with the url keys of a mapping removed, one level only *)
OneLevelStripped(v) ==
    IF IsDict(v)
    THEN JDict(SelectSeq(v.kv, LAMBDA kv : kv[1][Len(kv[1])] \notin {"url", "curl"}))
    ELSE v

(* the payload entries 'nourls' selects, each value stripped one level *)
NoUrlEntries(jsondata) ==
    LET kept == SelectSeq(jsondata.kv,
                          LAMBDA kv : kv[1][Len(kv[1])] \notin {"url", "curl"})
    IN  [i \in 1..Len(kept) |-> <<kept[i][1], OneLevelStripped(kept[i][2])>>]

(* C9 as stated: with fields = ['nourls'] the record is the constants      *)
(* followed by the payload's entries whose key does not end with 'url',    *)
(* a mapping value losing its own url keys, one level only.                *)
C9_Original ==
    (InDataFields /\ args.fields = <<NoUrls>> /\ IsDict(args.jsondata)) =>
        /\ result.raised = "none"
        /\ result.retval = args.constants \o NoUrlEntries(args.jsondata)

(* C9: with fields = ['nourls'] and no constant named like a selected      *)
(* payload key, data_fields returns the constants first, then exactly the  *)
(* payload's top-level entries whose key does not end with 'url'; a        *)
(* selected value that is a mapping loses its own keys ending in 'url',    *)
(* one level only: mappings nested deeper, and mappings inside lists, are  *)
(* passed through unmodified.                                              *)
C9_NoUrlsEntries ==
    (/\ InDataFields
     /\ args.fields = <<NoUrls>>
     /\ IsDict(args.jsondata)
     /\ NoSharedName(args.constants, OdKeys(NoUrlEntries(args.jsondata))))
        => /\ result.raised = "none"
           /\ result.retval = args.constants \o NoUrlEntries(args.jsondata)

(* the owner mapping lost its 'url', its nested 'org' mapping kept its     *)
(* 'url', and the mapping inside the 'topics' list kept its 'url'          *)
C9_Witness ==
    /\ InDataFields
    /\ args.fields = <<NoUrls>>
    /\ args.jsondata = RepoItem
    /\ args.constants = OrgConstants
    /\ result.retval =
          OrgConstants \o
          << <<Name, JStr("widgets")>>,
             <<Owner, JDict(<< <<<<"login">>, JStr("acme")>>,
                               <<<<"org">>, JDict(<< <<<<"id">>, JNum(7)>>,
                                                     <<Url, JStr("u3")>> >>)>> >>)>>,
             <<Private, JBool(TRUE)>>,
             <<<<"topics">>, JList(<< JDict(<< <<Url, JStr("u4")>> >>) >>)>> >>

----------------------------------------------------------------------------
(* Properties of github_data *)

GithubDataReturned == op = "github_data" /\ result.pc = "done"

(* the source items the call obtained: the flattened pages of the API, or  *)
(* the list read from the cache                                            *)
ObtainedItems ==
    IF result.read_from = "a" THEN result.fetched ELSE result.all_fields

(* C1 as stated: whatever the items and the field specification, the       *)
(* extraction loop of github_data completes without raising and a batch    *)
(* is returned.                                                            *)
C1_Original ==
    (op = "github_data" /\ result.stage = "project") =>
        /\ result.raised = "none"
        /\ result.pc = "done"

(* C10 as stated, for the calls that return: the batch holds one record    *)
(* per obtained item, the i-th record being the projection of the i-th     *)
(* item, whatever the page boundaries.                                     *)
C10_Original ==
    GithubDataReturned =>
        /\ Len(result.retval) = Len(ObtainedItems)
        /\ \A i \in 1..Len(ObtainedItems) :
              result.retval[i] =
                  DataFields({}, args.entity, ObtainedItems[i], args.fields,
                             args.constants).values

(* the field list a github_data call hands to data_fields, defaults applied *)
GithubFields == IF args.fields = <<>> THEN DefaultFields(args.entity) ELSE args.fields

GithubExplicit == op = "github_data" /\ GithubFields[1] \notin WildcardTokens

(* the requested paths that are no constant and resolve in no obtained item *)
NowhereResolved ==
    {GithubFields[n] : n \in {m \in 1..Len(GithubFields) :
        /\ ~OdHas(args.constants, GithubFields[m])
        /\ \A i \in 1..Len(ObtainedItems) :
              ~PathResolves(ObtainedItems[i], SplitDots(GithubFields[m]))}}

(* C11 as stated: when an explicitly requested path resolves in none of    *)
(* the K >= 1 items of a batch, github_data still returns K records, each  *)
(* mapping that field to None, and the unknown-field set holds that path   *)
(* once: it grows by the failing paths only, not by one entry per item.    *)
C11_Original ==
    ( /\ GithubExplicit
      /\ result.stage = "project"
      /\ Len(ObtainedItems) >= 1
      /\ NowhereResolved # {} ) =>
        /\ result.pc = "done"
        /\ Len(result.retval) = Len(ObtainedItems)
        /\ \A p \in NowhereResolved :
              /\ \A i \in 1..Len(result.retval) :
                    /\ OdHas(result.retval[i], ReplaceDots(p))
                    /\ OdGet(result.retval[i], ReplaceDots(p)) = None
              /\ p \in unknownfieldname
        /\ Cardinality(unknownfieldname \ result.entry_unknown) <= Len(GithubFields)

(* the lookup of a path fails on an item: nested_json_value takes its      *)
(* except branch                                                           *)
LookupFails(item, path) == ChainGet(item, UsedKeys(path)).err # "none"

(* C12: the unknown-field set is append-only.  No step of a run (the API   *)
(* read and cache update, the cache read, the extraction loop, sorting,    *)
(* display, return) takes an element out of it, and a step that adds to it *)
(* is the extraction loop of an explicit field list, adding only requested *)
(* paths that are no constant and whose lookup fails on an item.           *)
C12_AppendOnly ==
    [][ /\ unknownfieldname \subseteq unknownfieldname'
        /\ unknownfieldname' # unknownfieldname =>
              /\ GithubExplicit
              /\ result.pc = "project"
              /\ \A p \in unknownfieldname' \ unknownfieldname :
                    /\ \E n \in 1..Len(GithubFields) : GithubFields[n] = p
                    /\ ~OdHas(args.constants, p)
                    /\ \E i \in 1..Len(result.all_fields) :
                          LookupFails(result.all_fields[i], p) ]_vars

(* a command whose extraction added to a set that was not empty, and whose *)
(* display listed the set                                                  *)
C12_Witness ==
    /\ op = "github_data"
    /\ result.pc = "output"
    /\ result.entry_unknown # {}
    /\ result.entry_unknown \subseteq unknownfieldname
    /\ result.entry_unknown # unknownfieldname
    /\ result.displayed.unknown = unknownfieldname

(* the paths a data_fields call asks for *)
RequestedPaths == {EffectiveFields[n] : n \in 1..Len(EffectiveFields)}

(* C13: the unknown-field set never affects returned data.  Whatever the   *)
(* set held when data_fields was called, the call raises or returns the    *)
(* same record as with another content of the set (the empty set, and the  *)
(* set of all the requested paths), and so does each lookup of             *)
(* nested_json_value the call makes.                                       *)
C13_SetNeverRead ==
    InDataFields =>
        \A other \in {{}, RequestedPaths} :
            /\ LET r == DataFields(other, args.entity, args.jsondata, args.fields,
                                   args.constants)
               IN  /\ r.raised = result.raised
                   /\ r.values = result.retval
            /\ \A path \in RequestedPaths :
                  NestedJsonValue(other, args.jsondata, path).retval =
                      NestedJsonValue(result.entry_unknown, args.jsondata, path).retval

(* a call made when the set already held a requested path that this item   *)
(* does have                                                               *)
C13_Witness ==
    /\ InDataFields
    /\ result.pc = "done"
    /\ ExplicitMode
    /\ \E path \in RequestedPaths \cap result.entry_unknown :
          /\ ~IsConstant(path)
          /\ PathResolves(args.jsondata, SplitDots(path))
          /\ OdGet(result.retval, ReplaceDots(path)) # None

(* the key data_fields writes a requested field under *)
OutputKey(fldname) == IF IsConstant(fldname) THEN fldname ELSE ReplaceDots(fldname)

(* keys with the later occurrences of each one dropped *)
RECURSIVE FirstOccurrences(_)
FirstOccurrences(keys) ==
    IF keys = <<>> THEN <<>>
    ELSE LET front == FirstOccurrences(SubSeq(keys, 1, Len(keys) - 1))
             last  == keys[Len(keys)]
         IN  IF \E i \in 1..Len(front) : front[i] = last
             THEN front ELSE Append(front, last)

(* C14 as stated, for the calls that return a record: in explicit mode the *)
(* record has one entry per requested path in request order, duplicates    *)
(* preserved, so as many entries as the field list has elements.           *)
C14_Original ==
    (ExplicitMode /\ result.raised = "none") =>
        /\ Len(result.retval) = Len(EffectiveFields)
        /\ OdKeys(result.retval) =
               [n \in 1..Len(EffectiveFields) |-> OutputKey(EffectiveFields[n])]

(* C14: in explicit mode the record that is returned has one entry per     *)
(* distinct output key, in the order in which the keys are first           *)
(* requested; a path requested twice has one entry, so the record has as   *)
(* many entries as the field list has distinct output keys.                *)
C14_OneEntryPerKey ==
    (ExplicitMode /\ result.raised = "none") =>
        OdKeys(result.retval) =
            FirstOccurrences([n \in 1..Len(EffectiveFields) |->
                                 OutputKey(EffectiveFields[n])])

(* ['name', 'name'] on the repository item gave the single entry           *)
(* (name: 'widgets')                                                       *)
C14_Witness ==
    /\ InDataFields
    /\ args.jsondata = RepoItem
    /\ args.fields = <<Name, Name>>
    /\ result.retval = << <<Name, JStr("widgets")>> >>

(* C15: wildcard mode is selected exactly when the first element of fields *)
(* is '*', 'urls' or 'nourls'.  Then the call does what it does for the    *)
(* marker alone, whatever follows the marker.  When the first element is   *)
(* no wildcard token, a token at a later position is an ordinary path:     *)
(* the record has an entry under the token's own name with the value       *)
(* nested_json_value returns for it, the token is recorded as unknown when *)
(* that lookup fails, and the record has at most one entry per field.      *)
C15_WildcardByFirst ==
    InDataFields =>
        IF EffectiveFields[1] \in WildcardTokens
        THEN LET r == DataFields(result.entry_unknown, args.entity, args.jsondata,
                                 <<EffectiveFields[1]>>, args.constants)
             IN  /\ r.raised = result.raised
                 /\ r.values = result.retval
                 /\ r.unknownfieldname = unknownfieldname
        ELSE result.raised = "none" =>
                /\ Len(result.retval) <= Len(EffectiveFields)
                /\ \A n \in 2..Len(EffectiveFields) :
                      EffectiveFields[n] \in WildcardTokens =>
                          /\ OdHas(result.retval, EffectiveFields[n])
                          /\ OdGet(result.retval, EffectiveFields[n]) =
                                 Resolved(EffectiveFields[n])
                          /\ LookupFails(args.jsondata, EffectiveFields[n]) =>
                                 EffectiveFields[n] \in unknownfieldname

(* ['name', '*'] on the repository item gave (name: 'widgets', *: None)    *)
(* and recorded '*' as unknown                                             *)
C15_Witness ==
    /\ InDataFields
    /\ args.jsondata = RepoItem
    /\ args.fields = <<Name, Star>>
    /\ result.retval = << <<Name, JStr("widgets")>>, <<Star, None>> >>
    /\ Star \in unknownfieldname

(* every segment names, up to letter case, a key of the mapping reached so *)
(* far                                                                     *)
RECURSIVE ResolvesFoldingCase(_, _)
ResolvesFoldingCase(v, segs) ==
    \/ segs = <<>>
    \/ /\ IsDict(v)
       /\ \E i \in 1..Len(v.kv) :
             /\ StrLower(v.kv[i][1]) = StrLower(segs[1])
             /\ ResolvesFoldingCase(v.kv[i][2], Tail(segs))

(* the segments name keys of the payload up to letter case, but not        *)
(* exactly                                                                 *)
DiffersInCaseOnly(nested_dict, segs) ==
    /\ ResolvesFoldingCase(nested_dict, segs)
    /\ ~PathResolves(nested_dict, segs)

(* C16 as stated: a path that differs from the payload's keys in letter    *)
(* case only is not found: nested_json_value returns None and records the  *)
(* path in the unknown-field set.                                          *)
C16_Original ==
    ( /\ InNestedJsonValue
      /\ DiffersInCaseOnly(args.nested_dict, SplitDots(args.dot_fldname)) ) =>
        /\ result.retval = None
        /\ args.dot_fldname \in unknownfieldname

(* C16: the segments that are looked up, the first five, are matched       *)
(* against payload keys exactly, with no case folding.  A path whose first *)
(* five segments differ from the payload's keys in letter case only is not *)
(* found: nested_json_value returns None and records the path in the       *)
(* unknown-field set.                                                      *)
C16_NoCaseFolding ==
    ( /\ InNestedJsonValue
      /\ DiffersInCaseOnly(args.nested_dict, UsedKeys(args.dot_fldname)) ) =>
        /\ result.retval = None
        /\ args.dot_fldname \in unknownfieldname

(* 'Name' was looked up in the repository item, whose key is 'name' *)
C16_Witness ==
    /\ InNestedJsonValue
    /\ args.nested_dict = RepoItem
    /\ args.dot_fldname = <<"Name">>
    /\ DiffersInCaseOnly(args.nested_dict, UsedKeys(args.dot_fldname))
    /\ result.retval = None
    /\ <<"Name">> \in unknownfieldname

(* the default list of the entities of the model, as default_fields states  *)
(* it: ['name', 'owner.login'] for a repo, ['login', 'owner', 'repo', 'id'] *)
(* for a collab, ['name'] for an unknown entity                            *)
EntityDefaults(entity) ==
    IF entity = "repo" THEN <<Name, OwnerLogin>>
    ELSE IF entity = "collab" THEN << <<"login">>, Owner, Repo, <<"id">> >>
    ELSE <<Name>>

(* C17: with fields None or empty, data_fields does exactly what it does   *)
(* when the entity's default list is passed explicitly (same record or     *)
(* exception, same unknown-field set); a non-empty list is used as given:  *)
(* the call does the same whatever the entity is.                          *)
C17_DefaultsWhenEmpty ==
    InDataFields =>
        IF args.fields = <<>>
        THEN LET r == DataFields(result.entry_unknown, "other", args.jsondata,
                                 EntityDefaults(args.entity), args.constants)
             IN  /\ r.raised = result.raised
                 /\ r.values = result.retval
                 /\ r.unknownfieldname = unknownfieldname
        ELSE \A entity \in {"repo", "collab", "commit"} :
                LET r == DataFields(result.entry_unknown, entity, args.jsondata,
                                    args.fields, args.constants)
                IN  /\ r.raised = result.raised
                    /\ r.values = result.retval
                    /\ r.unknownfieldname = unknownfieldname

(* no fields for a repo on the repository item gave (name: 'widgets',      *)
(* owner_login: 'acme')                                                    *)
C17_Witness ==
    /\ InDataFields
    /\ args.fields = <<>>
    /\ args.entity = "repo"
    /\ args.jsondata = RepoItem
    /\ args.constants = NoConstants
    /\ result.retval = << <<Name, JStr("widgets")>>, <<OwnerLoginFlat, JStr("acme")>> >>

(* the sort key of a record as C18 states it: the lower-cased string form  *)
(* of the value of the record's first field                                *)
FirstFieldKey(record) == TokLower(PyStr(record[1][2]))

(* out is templist reordered: in non-decreasing order of the key, records  *)
(* with equal keys in their order in templist, none added or dropped       *)
IsStableSortOf(out, templist) ==
    /\ Len(out) = Len(templist)
    /\ \E f \in [1..Len(out) -> 1..Len(out)] :
          /\ \A i, j \in 1..Len(out) : f[i] = f[j] => i = j
          /\ \A i \in 1..Len(out) : out[i] = templist[f[i]]
          /\ \A i, j \in 1..Len(out) :
                i < j =>
                    /\ StrLeq(FirstFieldKey(out[i]), FirstFieldKey(out[j]))
                    /\ FirstFieldKey(out[i]) = FirstFieldKey(out[j]) => f[i] < f[j]

(* C18 as stated: the command outputs the batch github_data returned,      *)
(* sorted in non-decreasing order of data_sort, records with equal keys in *)
(* source order, no record added or dropped.                               *)
C18_Original ==
    (op = "github_data" /\ result.stage = "output") =>
        /\ result.pc = "output"
        /\ IsStableSortOf(result.sorted_data, result.retval)

(* an item with every constant field set to the constant's value: the keys *)
(* the item has keep their place, the other constants follow               *)
WithConstants(item, constants) ==
    JDict([i \in 1..Len(item.kv) |->
              IF OdHas(constants, item.kv[i][1])
              THEN <<item.kv[i][1], OdGet(constants, item.kv[i][1])>>
              ELSE item.kv[i]]
          \o SelectSeq(constants, LAMBDA c : ~OdHas(item.kv, c[1])))

(* the step of github_data that reads the API and calls cache_update *)
ApiReadStep ==
    /\ op = "github_data"
    /\ result.pc = "read"
    /\ result'.stage = "cache_update"

(* C19: after cache_update(endpoint, payload, constants) the cache file of *)
(* the endpoint holds exactly the payload's items in their order, each     *)
(* with every constant field set to the constant's value, whatever the     *)
(* file held before; the other cache files are as they were.               *)
C19_CacheHoldsPayload ==
    [][ ApiReadStep =>
          LET filename == CacheFilename(args.endpoint, args.username)
              payload  == result'.fetched
          IN  /\ Cardinality({i \in 1..Len(cache') : cache'[i][1] = filename}) = 1
              /\ OdGet(cache', filename) =
                     [i \in 1..Len(payload) |->
                         WithConstants(payload[i], args.constants)]
              /\ \A i \in 1..Len(cache) :
                    cache[i][1] # filename =>
                        \E j \in 1..Len(cache') : cache'[j] = cache[i] ]_vars

(* the cache existed, the user chose the API, and the file now holds the   *)
(* fetched item with owner and repo set to the constants                   *)
C19_Witness ==
    /\ op = "github_data"
    /\ result.stage = "cache_update"
    /\ result.cache_offered
    /\ args.constants = CollabConstants
    /\ result.fetched = <<OddItem>>
    /\ LET cached == GithubDataFromCache(cache, args.endpoint, args.username)
       IN  /\ Len(cached) = 1
           /\ OdGet(cached[1].kv, Owner) = JStr("msft")
           /\ OdGet(cached[1].kv, Repo) = JStr("sdk")
           /\ OdGet(cached[1].kv, PrivateCap) = JBool(TRUE)

(* C20: with datasource 'a' a call of github_data never prompts and reads  *)
(* no cache; it fetches from the API exactly once; when the fetch and the  *)
(* cache update are done and nothing is projected yet, the endpoint's      *)
(* cache file holds the fetched data; and whenever items have been         *)
(* projected or the batch handed back, the fetch has been made once and    *)
(* the cache file still holds that data.                                   *)
C20_ApiThenCacheThenProject ==
    (op = "github_data" /\ args.datasource = "a") =>
        /\ ~result.prompted
        /\ result.stage \in {"source", "cache_update", "project", "output"}
        /\ result.stage = "source" =>
              /\ result.fetches = 0
              /\ result.retval = <<>>
              /\ unknownfieldname = result.entry_unknown
        /\ result.stage = "cache_update" =>
              /\ result.retval = <<>>
              /\ unknownfieldname = result.entry_unknown
        /\ result.stage \in {"cache_update", "project", "output"} =>
              /\ result.read_from = "a"
              /\ result.fetches = 1
              /\ CacheExists(cache, args.endpoint, args.username)
              /\ GithubDataFromCache(cache, args.endpoint, args.username) =
                     [i \in 1..Len(result.fetched) |->
                         WithConstants(result.fetched[i], args.constants)]

(* a call with datasource 'a' that fetched two items once, wrote them to   *)
(* the cache and returned two records                                      *)
C20_Witness ==
    /\ op = "github_data"
    /\ args.datasource = "a"
    /\ result.pc = "done"
    /\ result.fetches = 1
    /\ Len(result.fetched) = 2
    /\ Len(result.retval) = 2
    /\ Len(GithubDataFromCache(cache, args.endpoint, args.username)) = 2

(* the records data_fields makes of a list of items, one after the other *)
ProjectionOf(items) ==
    [i \in 1..Len(items) |->
        DataFields({}, args.entity, items[i], args.fields, args.constants).values]

(* what holds in every state of a github_data call with datasource 'c' *)
CacheOnlyState ==
    (op = "github_data" /\ args.datasource = "c") =>
        /\ ~result.prompted
        /\ result.fetches = 0
        /\ result.sys_exit = <<>>
        /\ result.stage \in {"source", "cache_read", "project", "output"}
        /\ result.stage \in {"source", "cache_read"} => result.raised = "none"
        /\ (result.stage = "source" /\ result.pc = "done") =>
              /\ ~CacheExists(cache, args.endpoint, args.username)
              /\ result.echoed = "ERROR: cached data requested, but none found."
              /\ result.retval = <<>>
        /\ (result.stage = "project" /\ result.pc = "done") =>
              /\ CacheExists(cache, args.endpoint, args.username)
              /\ result.retval =
                     ProjectionOf(OdGet(cache, CacheFilename(args.endpoint,
                                                             args.username)))

(* C21: with datasource 'c' github_data never calls the API, never prompts *)
(* and never writes or modifies the cache; if no cache file exists for the *)
(* endpoint it reports an error message and returns an empty list without  *)
(* raising, otherwise what it returns is the projection of the cached      *)
(* items, in their order.                                                  *)
C21_CacheOnly ==
    /\ []CacheOnlyState
    /\ [][ (op = "github_data" /\ args.datasource = "c") => cache' = cache ]_vars

(* a call with datasource 'c' returned two different records read from a   *)
(* cache file of two items                                                 *)
C21_Witness ==
    /\ op = "github_data"
    /\ args.datasource = "c"
    /\ result.stage = "project"
    /\ result.pc = "done"
    /\ Len(result.retval) = 2
    /\ result.retval[1] # result.retval[2]

(* the content of the endpoint's cache file *)
CachedItems == OdGet(cache, CacheFilename(args.endpoint, args.username))

(* what holds in every state of a github_data call in prompt mode once the *)
(* user has answered                                                       *)
PromptState ==
    (op = "github_data" /\ args.datasource \notin {"a", "c"} /\ result.pc # "source") =>
        /\ result.prompted
        /\ IF result.read_from = "x"
           THEN /\ result.fetches = 0
                /\ result.all_fields = <<>>
                /\ result.retval = <<>>
                /\ result.pc \in {"read", "exited"}
                /\ result.pc = "exited" => result.sys_exit = <<0>>
           ELSE IF result.read_from = "a"
           THEN /\ result.sys_exit = <<>>
                /\ result.stage # "source" =>
                      /\ result.fetches = 1
                      /\ CacheExists(cache, args.endpoint, args.username)
                      /\ CachedItems =
                             [i \in 1..Len(result.fetched) |->
                                 WithConstants(result.fetched[i], args.constants)]
           ELSE IF /\ result.read_from = "c"
                   /\ CacheExists(cache, args.endpoint, args.username)
           THEN /\ result.sys_exit = <<>>
                /\ result.fetches = 0
                /\ result.stage # "source" => result.all_fields = CachedItems
           ELSE /\ result.sys_exit = <<>>
                /\ result.fetches = 0
                /\ result.all_fields = <<>>
                /\ result.retval = <<>>
                /\ result.raised = "none"
                /\ result.stage \in {"project", "output"} =>
                      result.pc \in {"done", "output"}

(* C22: in prompt mode the user's answer decides the outcome.  'x' ends    *)
(* the process with exit status 0 before any API call or cache read; 'a'   *)
(* reads from the API and updates the cache; 'c' reads the cache when it   *)
(* exists; any other answer, or 'c' when no cache exists, returns an empty *)
(* batch with no API call; and only the answer 'a' changes the cache.      *)
C22_AnswerDecides ==
    /\ []PromptState
    /\ [][ ( /\ op = "github_data"
             /\ args.datasource \notin {"a", "c"}
             /\ result.read_from # "a" ) => cache' = cache ]_vars

(* the cache existed, the user answered something other than a, c and x,   *)
(* and the call returned an empty batch                                    *)
C22_Witness ==
    /\ op = "github_data"
    /\ args.datasource = "p"
    /\ result.prompted
    /\ result.cache_offered
    /\ result.read_from = "n"
    /\ result.pc = "done"
    /\ result.retval = <<>>
    /\ CachedItems # <<>>

(* the endpoint text before its first '?' *)
RECURSIVE BeforeQuery(_)
BeforeQuery(endpoint) ==
    IF endpoint = <<>> \/ endpoint[1] = "?" THEN <<>>
    ELSE <<endpoint[1]>> \o BeforeQuery(Tail(endpoint))

(* endpoints and authentication names cache_filename is compared on: the   *)
(* endpoints of the model, one with another path and one without           *)
(* parameters                                                              *)
FilenameEndpoints ==
    Endpoints \cup { <<"/", "orgs", "/", "X", "/", "teams", "?", "per_page=100">>,
                     <<"/", "user", "/", "orgs">> }

FilenameUsers == Usernames \cup {"octocat"}

(* the name under which a cache file is kept for an authentication name *)
AuthPart(username) == IF username = "" THEN "_anon" ELSE username

(* C23: cache_filename depends only on the authentication name ('_anon'    *)
(* when none is set) and on the endpoint text before the first '?'.        *)
(* Endpoints that differ in their parameters only have the same cache      *)
(* file, so once an API read of one endpoint has updated the cache, a      *)
(* cache read of the other finds a file and gets the data of the first.    *)
C23_QueryIgnored ==
    (op = "github_data" /\ result.stage = "cache_update") =>
        /\ \A other \in FilenameEndpoints, username \in FilenameUsers :
              /\ CacheFilename(other, username)[2] = AuthPart(username)
              /\ BeforeQuery(other) = BeforeQuery(args.endpoint) =>
                    CacheFilename(other, username) =
                        CacheFilename(args.endpoint, username)
        /\ \A other \in Endpoints :
              BeforeQuery(other) = BeforeQuery(args.endpoint) =>
                  /\ CacheExists(cache, other, args.username)
                  /\ GithubDataFromCache(cache, other, args.username) =
                         [i \in 1..Len(result.fetched) |->
                             WithConstants(result.fetched[i], args.constants)]

(* the API was read for the members without 2FA; the cache file of the     *)
(* plain members endpoint holds what was fetched                           *)
C23_Witness ==
    /\ op = "github_data"
    /\ result.stage = "cache_update"
    /\ args.endpoint = MembersNo2faEndpoint
    /\ args.constants = NoConstants
    /\ result.fetched = <<OddItem>>
    /\ CacheExists(cache, MembersEndpoint, args.username)
    /\ GithubDataFromCache(cache, MembersEndpoint, args.username) = <<OddItem>>

(* the outcome of a github_data call with datasource 'c' made with the     *)
(* arguments of the present call on the cache files as they are now        *)
CacheCallNow ==
    IF ~CacheExists(cache, args.endpoint, args.username)
    THEN [raised |-> "none", retval |-> <<>>]
    ELSE LET st == ProjectAll([raised |-> "none", retval |-> <<>>,
                               unknownfieldname |-> unknownfieldname],
                              args.entity,
                              GithubDataFromCache(cache, args.endpoint, args.username),
                              args.fields, args.constants)
         IN  [raised |-> st.raised, retval |-> st.retval]

SelectedNames(jsondata, mode) ==
    SelectSeq(OdKeys(jsondata.kv),
              LAMBDA k : \/ mode = Star
                         \/ mode = NoUrls /\ k[Len(k)] \notin {"url", "curl"}
                         \/ mode = Urls /\ k[Len(k)] \in {"url", "curl"})

(* the positions of a name among the keys of a record *)
PositionsOf(record, name) == {p \in 1..Len(record) : record[p][1] = name}

(* the constants whose name is also a selected payload key *)
SharedNames(constants, jsondata, mode) ==
    {i \in 1..Len(constants) :
        \E j \in 1..Len(SelectedNames(jsondata, mode)) :
            SelectedNames(jsondata, mode)[j] = constants[i][1]}

(* C25: in the wildcard modes '*' and 'nourls', a constant whose name is   *)
(* also a selected top-level key of the payload gives one entry only: it   *)
(* stands where the constant was put, at the head of the record, and holds *)
(* the payload's value (in 'nourls' mode with the url keys of a mapping    *)
(* removed), not the constant's.  The record then has fewer entries than   *)
(* there are constants and selected payload keys together.                 *)
C25_PayloadOverridesConstant ==
    ( /\ InDataFields
      /\ args.fields # <<>>
      /\ args.fields[1] \in {Star, NoUrls}
      /\ IsDict(args.jsondata) ) =>
        LET mode     == args.fields[1]
            selected == SelectedNames(args.jsondata, mode)
            shared   == SharedNames(args.constants, args.jsondata, mode)
        IN  /\ result.raised = "none"
            /\ Len(result.retval) =
                   Len(args.constants) + Len(selected) - Cardinality(shared)
            /\ \A i \in shared :
                   LET name    == args.constants[i][1]
                       payload == OdGet(args.jsondata.kv, name)
                   IN  /\ PositionsOf(result.retval, name) = {i}
                       /\ result.retval[i][2] =
                              IF mode = NoUrls THEN OneLevelStripped(payload)
                              ELSE payload
                       /\ Len(result.retval) <
                              Len(args.constants) + Len(selected)

(* 'nourls' with the constants owner and repo on a payload that has an     *)
(* owner mapping: owner stays first and holds the payload's mapping        *)
(* without its url key, and the record has one entry less                  *)
C25_Witness ==
    /\ InDataFields
    /\ args.fields = <<NoUrls>>
    /\ args.jsondata = RepoItem
    /\ args.constants = CollabConstants
    /\ result.raised = "none"
    /\ SharedNames(args.constants, args.jsondata, NoUrls) = {1}
    /\ result.retval[1][1] = Owner
    /\ result.retval[1][2] # JStr("msft")
    /\ IsDict(result.retval[1][2])
    /\ ~OdHas(result.retval[1][2].kv, Url)
    /\ Len(result.retval) =
           Len(CollabConstants) + Len(SelectedNames(RepoItem, NoUrls)) - 1

(* the value the explicit loop writes for one requested field: the         *)
(* constant, or what nested_json_value returns, re-expressed for a field   *)
(* named 'private'                                                         *)
ValueWritten(fldname) ==
    IF IsConstant(fldname) THEN OdGet(args.constants, fldname)
    ELSE IF IsPrivateName(fldname)
         THEN PrivacyString(Truthy(OdGet(args.jsondata.kv, fldname)))
         ELSE Resolved(fldname)

(* the last position of fields whose output key is that of position n *)
LastOccurrence(fields, n) ==
    CHOOSE m \in n..Len(fields) :
        /\ OutputKey(fields[m]) = OutputKey(fields[n])
        /\ \A later \in (m + 1)..Len(fields) :
               OutputKey(fields[later]) # OutputKey(fields[n])

(* C26: in explicit mode, requested fields with the same output key (the   *)
(* same path twice, or different paths such as 'owner.login' and           *)
(* 'owner_login') give one entry: it stands where the key was first        *)
(* requested and holds the value written for the last field that has this  *)
(* key, so the record has as many entries as there are distinct output     *)
(* keys.                                                                   *)
C26_FirstPositionLastValue ==
    (ExplicitMode /\ result.raised = "none") =>
        LET keys == [n \in 1..Len(EffectiveFields) |-> OutputKey(EffectiveFields[n])]
        IN  /\ Len(result.retval) = Cardinality({keys[n] : n \in 1..Len(keys)})
            /\ \A n \in 1..Len(keys) :
                   LET first == CHOOSE m \in 1..n :
                                    /\ keys[m] = keys[n]
                                    /\ \A e \in 1..(m - 1) : keys[e] # keys[n]
                       before == Cardinality({keys[e] : e \in 1..(first - 1)})
                   IN  /\ PositionsOf(result.retval, keys[n]) = {before + 1}
                       /\ OdGet(result.retval, keys[n]) =
                              ValueWritten(EffectiveFields[
                                  LastOccurrence(EffectiveFields, n)])

(* 'owner.login' then 'owner_login' gave the single entry owner_login with *)
(* the value of the flat key, and in the other order the single entry with *)
(* the value found under owner                                             *)
C26_Witness ==
    /\ InDataFields
    /\ args.jsondata = OddItem
    /\ args.constants = NoConstants
    /\ \/ /\ args.fields = <<OwnerLogin, OwnerLoginFlat>>
          /\ result.retval = << <<OwnerLoginFlat, JStr("flat")>> >>
       \/ /\ args.fields = <<OwnerLoginFlat, OwnerLogin>>
          /\ result.retval = << <<OwnerLoginFlat, JStr("zed")>> >>

(* C27 as stated: sorting a batch returned by github_data with data_sort   *)
(* never raises.  data_sort yields a sort key for every record of every    *)
(* batch github_data returns, whatever the field specification and the     *)
(* constants, records made of items that select no key included; and the   *)
(* sort of the command that follows raises nothing.                        *)
C27_Original ==
    /\ (op = "github_data" /\ result.pc = "done") =>
           \A i \in 1..Len(result.retval) : DataSort(result.retval[i]).err = "none"
    /\ (op = "github_data" /\ result.stage = "output") => result.raised = "none"

(* C28: a path of more than 5 segments is resolved by its first 5          *)
(* segments alone.  nested_json_value raises nothing; when the 5-segment   *)
(* prefix resolves it returns the value stored at the prefix, whatever the *)
(* remaining segments are, and leaves the unknown-field set as it was.     *)
C28_FivePrefix ==
    InNestedJsonValue =>
        LET segs == SplitDots(args.dot_fldname)
        IN  Len(segs) > 5 =>
                /\ result.raised = "none"
                /\ PathResolves(args.nested_dict, SubSeq(segs, 1, 5)) =>
                       /\ result.retval = ValueAt(args.nested_dict, SubSeq(segs, 1, 5))
                       /\ unknownfieldname = result.entry_unknown

(* 'a.b.c.d.e.x' on the deep item, which has no key x under a.b.c.d.e,     *)
(* gave the mapping stored at a.b.c.d.e and recorded nothing               *)
C28_Witness ==
    /\ InNestedJsonValue
    /\ args.nested_dict = DeepItem
    /\ args.dot_fldname = <<"a", ".", "b", ".", "c", ".", "d", ".", "e", ".", "x">>
    /\ result.raised = "none"
    /\ result.retval = JDict(<< <<<<"f">>, JNum(6)>> >>)
    /\ unknownfieldname = result.entry_unknown

====
